---- MODULE Spec2Model ----
(***************************************************************************)
(* Streamgamemate backend: the /api/shared-games and /api/search-game      *)
(* request handlers, in each of the versions the repository holds.         *)
(*                                                                         *)
(*   "index"      src/index.js:107-175          Promise.all, fixed 0.8     *)
(*   "settled"    src/unnamed/part_001:122-209  Promise.allSettled         *)
(*   "batch"      src/unnamed/part_000:147-234  Promise.allSettled, counts *)
(*   "sequential" src/unnamed/part_000:372-461  one fetch at a time, paced *)
(*   "oldest"     src/unnamed/part_000:581-618  strict intersection        *)
(*   "search"     src/unnamed/part_001:213-274  /api/search-game           *)
(*                                                                         *)
(* One behaviour is one request.  Node runs a handler on a single thread:  *)
(* an action is one event-loop task, i.e. the arrival of the request, of   *)
(* an upstream answer or of a timer, together with the handler code that   *)
(* runs from there to the next await.                                      *)
(***************************************************************************)
EXTENDS Integers, Sequences, FiniteSets, TLC

\* ------------------------------------------------------------------ bounds
\* Longest requested id list.
MaxIds == 2
\* Largest live player count an upstream answer reports.
MaxCount == 1
\* The enrichment cap: slice(0, 100) in the sequential and batch versions,
\* slice(0, 150) / slice(0, 30) / slice(0, 20) in the others.  The model keeps
\* the slice and scales its length so that more candidates than the cap exist.
SliceCap == 2

\* A query parameter that the request does not carry.
NoParam == "<absent>"
\* A steamids or query parameter that is absent or empty: `!param` holds.
Missing == << >>

PlayerNames == <<"A", "B", "C", "D">>

\* Player ids are opaque: a handler only compares them for equality.  The id
\* lists are therefore taken up to renaming, first occurrences in the order
\* A, B, C; repeated ids are kept (the handlers do not deduplicate).
IdLists ==
    LET shapes == UNION {[1..n -> 1..MaxIds] : n \in 1..MaxIds}
        firstUse(s) == \A i \in DOMAIN s :
                          \A v \in 1..(s[i] - 1) : \E j \in 1..(i - 1) : s[j] = v
    IN  {[i \in DOMAIN s |-> PlayerNames[s[i]]] : s \in {t \in shapes : firstUse(t)}}

\* One game of an owned-games answer.
G(a, p) == [appid |-> a, playtime_forever |-> p]

\* The libraries an owned-games answer may list: a single game, two games
\* listed in descending appid order, three games (more than SliceCap), one
\* game listed twice, and the empty list.
Libraries ==
    { << >>,
      <<G(1, 5)>>,
      <<G(2, 0), G(1, 7)>>,
      <<G(1, 2), G(2, 3), G(3, 4)>>,
      <<G(3, 1), G(3, 9)>> }

\* Answers of GetOwnedGames: the call rejects (transport error, 401 of a
\* private profile), the body has no `response` object, the `response` has
\* no `games` list (private library), or the `response` lists games.
OwnedAnswer(k, gs) == [kind |-> k, games |-> gs]
OwnedReplies ==
    {OwnedAnswer("rejected", << >>), OwnedAnswer("noresponse", << >>),
     OwnedAnswer("nogames", << >>)}
        \cup {OwnedAnswer("games", l) : l \in Libraries}

\* Answers of appdetails: the call rejects, the entry has success = false,
\* or the entry has success = true and carries data.
DetailsReplies == {"rejected", "nosuccess", "ok"}

\* Answers of GetNumberOfCurrentPlayers: the call rejects, the body has no
\* `response` object, the `response` has no player_count, or it has one:
\* zero, or a positive count.
PlayersAnswer(k, n) == [kind |-> k, player_count |-> n]
PlayersReplies ==
    {PlayersAnswer("rejected", 0), PlayersAnswer("noresponse", 0),
     PlayersAnswer("nofield", 0)}
        \cup {PlayersAnswer("count", n) : n \in {0, MaxCount}}

\* The `threshold` query parameter, as the text the caller sent.
ThresholdParams == {NoParam, "0", "0.5", "1"}

\* The app catalogue GetAppList answers with, and the `query` parameter.
\* Names and queries are sequences of characters.
AppCatalogue ==
    << [appid |-> 1, name |-> <<"P", "o">>],
       [appid |-> 2, name |-> <<"p", "O", "x">>],
       [appid |-> 3, name |-> <<"o", "p", "o">>] >>
QueryParams == {Missing, <<"P", "O">>, <<"z">>}
AppListReplies == {"rejected", "ok"}

Variants ==
    {"index", "settled", "batch", "sequential", "oldest", "search", "user",
     "friends"}

\* What GetPlayerSummaries and GetFriendList can answer to /api/user and
\* /api/friends: a rejection, a body without `friendslist`, an empty friends
\* list, a list of friends; a body without `response`, the players.
SummariesReplies == {"rejected", "noresponse", "ok"}
FriendListReplies == {"rejected", "nolist", "empty", "friends"}

\* ----------------------------------------------------------- pure helpers
Range(s) == {s[i] : i \in DOMAIN s}

Min(a, b) == IF a < b THEN a ELSE b

\* Array.prototype.slice(0, n)
Slice(s, n) == SubSeq(s, 1, Min(n, Len(s)))

\* The value of a playtimes object: a function from the keys set so far.
EmptyObject == [k \in {} |-> 0]
Put(obj, key, val) ==
    [k \in DOMAIN obj \cup {key} |-> IF k = key THEN val ELSE obj[k]]

\* ------------------------------------------------------------- threshold
\* A JavaScript number as far as the handlers use one: NaN, or a value in
\* hundredths (0.8 is Num(80)).  The ratios compared below are k/n with n at
\* most MaxIds + 1 and the thresholds have two decimals, so a comparison in
\* hundredths agrees with the comparison of the IEEE doubles.
Num(h) == [nan |-> FALSE, hundredths |-> h]
NaN == [nan |-> TRUE, hundredths |-> 0]

\* parseFloat of the parameter's text; parseFloat(undefined) is NaN.
ParseFloat(text) ==
    CASE text = "0"   -> Num(0)
      [] text = "0.5" -> Num(50)
      [] text = "0.8" -> Num(80)
      [] text = "1"   -> Num(100)
      [] OTHER        -> NaN

\* Truthiness of a number: NaN and 0 are falsy.
Truthy(x) == ~x.nan /\ x.hundredths # 0

\* ownershipThreshold as each version computes it from the request.
OwnershipThreshold(v, param) ==
    CASE v \in {"sequential", "batch"} ->
            \* const { threshold = '0.8' } = req.query; parseFloat(threshold)
            ParseFloat(IF param = NoParam THEN "0.8" ELSE param)
      [] v = "settled" ->
            \* parseFloat(threshold) || 0.8
            LET parsed == ParseFloat(param)
            IN  IF Truthy(parsed) THEN parsed ELSE Num(80)
      [] OTHER ->
            \* const ownershipThreshold = 0.8 (index); unused elsewhere
            Num(80)

\* Faulty variant of MeetsThreshold: the boundary is left out (`>`).
MeetsThresholdStrict(num, den, thr) ==
    ~thr.nan /\ num * 100 > thr.hundredths * den

\* ownershipRatio >= ownershipThreshold, the ratio being num / den.  Any
\* comparison with NaN is false.
MeetsThreshold(num, den, thr) ==
    ~thr.nan /\ num * 100 >= thr.hundredths * den

\* -------------------------------------------------------- ownership map
\* gameOwnershipMap is a Map: entries in insertion order, one per appid.
HasKey(map, a) == \E i \in DOMAIN map : map[i].appid = a

\* As FoldGames, but recording the playtime only when the entry is created.
RECURSIVE FoldGamesPlaytimeOnCreate(_, _, _, _)
FoldGamesPlaytimeOnCreate(v, map, id, games) ==
    IF games = << >> THEN map
    ELSE LET g == Head(games)
             m1 == IF HasKey(map, g.appid) THEN map
                   ELSE Append(map, [appid |-> g.appid, owners |-> << >>,
                                     playtimes |->
                                        IF v = "index" THEN EmptyObject
                                        ELSE Put(EmptyObject, id,
                                                 g.playtime_forever)])
             m2 == [i \in DOMAIN m1 |->
                      IF m1[i].appid # g.appid THEN m1[i]
                      ELSE [m1[i] EXCEPT !.owners = Append(@, id)]]
         IN  FoldGamesPlaytimeOnCreate(v, m2, id, Tail(games))

\* response.games.forEach(game => { if (!map.has) map.set; push; playtimes })
\* The index version keeps the owners array only.
RECURSIVE FoldGames(_, _, _, _)
FoldGames(v, map, id, games) ==
    IF games = << >> THEN map
    ELSE LET g == Head(games)
             m1 == IF HasKey(map, g.appid) THEN map
                   ELSE Append(map, [appid |-> g.appid, owners |-> << >>,
                                     playtimes |-> EmptyObject])
             m2 == [i \in DOMAIN m1 |->
                      IF m1[i].appid # g.appid THEN m1[i]
                      ELSE [m1[i] EXCEPT
                              !.owners = Append(@, id),
                              !.playtimes = IF v = "index" THEN @
                                            ELSE Put(@, id, g.playtime_forever)]]
         IN  FoldGames(v, m2, id, Tail(games))

\* Whether a settled owned-games call is folded into the map.
IsLibrary(answer) == answer.kind = "games"

\* Whether the handler's own code throws on a fulfilled answer:
\* result.value.data.response.games with no `response` object (batch, index),
\* r.data.response.games.map with no `games` list (oldest).
ThrowsOn(v, answer) ==
    CASE v \in {"batch", "index"} -> answer.kind = "noresponse"
      [] v = "oldest"             -> answer.kind \in {"noresponse", "nogames"}
      [] OTHER                    -> FALSE

\* As FoldResults, but folding the libraries last position first.
RECURSIVE FoldResultsLastFirst(_, _, _, _, _, _)
FoldResultsLastFirst(v, map, idList, results, from, to) ==
    IF from > to THEN map
    ELSE FoldResultsLastFirst(v,
                     IF IsLibrary(results[to])
                        THEN FoldGames(v, map, idList[to], results[to].games)
                        ELSE map,
                     idList, results, from, to - 1)

\* results.forEach((result, index) => ...): the libraries at positions
\* from..to are folded in the order of the id list.
RECURSIVE FoldResults(_, _, _, _, _, _)
FoldResults(v, map, idList, results, from, to) ==
    IF from > to THEN map
    ELSE FoldResults(v,
                     IF IsLibrary(results[from])
                        THEN FoldGames(v, map, idList[from], results[from].games)
                        ELSE map,
                     idList, results, from + 1, to)

\* The number of libraries folded: publicProfilesCount / successfulFetches.
CountLibraries(results, to) ==
    Cardinality({i \in 1..to : IsLibrary(results[i])})

\* The denominator of ownershipRatio.
RatioDenominator(v, idList, count) ==
    IF v = "index" THEN Len(idList)   \* owners.length / totalPlayers
    ELSE count                        \* owners.length / publicProfilesCount

\* The ownershipRatio computed for each entry of the map, as num / den.
Ratios(v, map, idList, count) ==
    [i \in DOMAIN map |->
        [appid |-> map[i].appid, num |-> Len(map[i].owners),
         den |-> RatioDenominator(v, idList, count)]]

\* for (const [appid, data] of map.entries()) if (ratio >= threshold) push
Matched(v, map, idList, count, thr) ==
    SelectSeq(map, LAMBDA e :
        MeetsThreshold(Len(e.owners), RatioDenominator(v, idList, count), thr))

\* The sort comparator: b.owners.length - a.owners.length, and in the index
\* and settled versions `|| a.appid - b.appid`.
Compare(v, a, b) ==
    LET byOwners == Len(b.owners) - Len(a.owners)
    IN  IF v \in {"index", "settled"} /\ byOwners = 0 THEN a.appid - b.appid
        ELSE byOwners

\* Array.prototype.sort is stable: x goes behind every element that does not
\* compare greater than it.
RECURSIVE InsertSorted(_, _, _)
InsertSorted(v, s, x) ==
    IF s = << >> THEN <<x>>
    ELSE IF Compare(v, Head(s), x) > 0 THEN <<x>> \o s
         ELSE <<Head(s)>> \o InsertSorted(v, Tail(s), x)

RECURSIVE Sort(_, _)
Sort(v, s) ==
    IF s = << >> THEN << >>
    ELSE InsertSorted(v, Sort(v, SubSeq(s, 1, Len(s) - 1)), s[Len(s)])

\* Faulty variant of TopCandidates: no slice.
TopCandidatesUncapped(s) == s

\* matchedGames.slice(0, 100): the candidates that are enriched.
TopCandidates(s) == Slice(s, SliceCap)

\* Faulty variant of NonOwners: the filter keeps every id.
NonOwnersAll(idList, owners) == idList

\* ids.filter(id => !game.owners.includes(id))
NonOwners(idList, owners) ==
    SelectSeq(idList, LAMBDA id : id \notin Range(owners))

\* ------------------------------------------------------------ enrichment
\* playersRes.data.response.player_count || 0
PlayerCount(reply) == IF reply.kind = "count" THEN reply.player_count ELSE 0

\* The object the async arrow function returns for one candidate.  The store
\* metadata spread from details.data is its steam_appid.
EnrichedGame(v, idList, game, reply) ==
    LET base == [steam_appid |-> game.appid,
                 player_count |-> PlayerCount(reply),
                 owners |-> game.owners,
                 nonOwners |-> NonOwners(idList, game.owners)]
    IN  IF v = "index" THEN base
        ELSE [steam_appid |-> base.steam_appid, player_count |-> base.player_count,
              owners |-> base.owners, nonOwners |-> base.nonOwners,
              playtimes |-> game.playtimes]

\* Whether the player-count await throws into the candidate's catch: the call
\* rejects, or playersRes.data.response is undefined.
PlayersThrows(reply) == reply.kind \in {"rejected", "noresponse"}

\* Faulty variant of EnrichResult: a failed player-count lookup is not caught
\* as a failure of the candidate but counts as 0 players.
EnrichResultZeroOnFailure(v, idList, game, detail, reply) ==
    IF detail # "ok" THEN << >>
    ELSE <<EnrichedGame(v, idList, game,
                        IF PlayersThrows(reply) THEN PlayersAnswer("nofield", 0)
                        ELSE reply)>>

\* What the arrow function resolves to: << >> for null, <<game>> otherwise.
EnrichResult(v, idList, game, detail, reply) ==
    IF detail # "ok" THEN << >>                \* catch, or !details.success
    ELSE IF PlayersThrows(reply) THEN << >>    \* catch
    ELSE <<EnrichedGame(v, idList, game, reply)>>

\* As FinalGames, but collecting the results last candidate first.
RECURSIVE FinalGamesLastFirst(_, _, _, _, _, _)
FinalGamesLastFirst(v, idList, cands, dets, pls, k) ==
    IF k > Len(cands) THEN << >>
    ELSE FinalGamesLastFirst(v, idList, cands, dets, pls, k + 1)
            \o EnrichResult(v, idList, cands[k], dets[k], pls[k])

\* (await Promise.all(promises)).filter(Boolean): results in the order of the
\* candidates, nulls dropped.
RECURSIVE FinalGames(_, _, _, _, _, _)
FinalGames(v, idList, cands, dets, pls, k) ==
    IF k > Len(cands) THEN << >>
    ELSE EnrichResult(v, idList, cands[k], dets[k], pls[k])
            \o FinalGames(v, idList, cands, dets, pls, k + 1)

\* The body of the final res.json(...).
FinalBody(v, games, idList, count) ==
    IF v \in {"sequential", "batch"}
    THEN [games |-> games, publicProfilesScanned |-> count,
          totalProfilesRequested |-> Len(idList)]
    ELSE [games |-> games]

\* The body sent when no library could be fetched.
EmptyBody(v, idList) ==
    IF v \in {"sequential", "batch"}
    THEN [games |-> << >>, publicProfilesScanned |-> 0,
          totalProfilesRequested |-> Len(idList)]
    ELSE [games |-> << >>]

\* ----------------------------------------------------------- oldest version
\* new Set(games.map(g => g.appid)) spread into an array: first occurrences.
RECURSIVE DistinctAppids(_)
DistinctAppids(games) ==
    IF games = << >> THEN << >>
    ELSE LET rest == DistinctAppids(SubSeq(games, 1, Len(games) - 1))
             a == games[Len(games)].appid
         IN  IF a \in Range(rest) THEN rest ELSE Append(rest, a)

\* [...userGames[0]].filter(gameId => userGames.every(s => s.has(gameId)))
SharedGameIds(results) ==
    SelectSeq(DistinctAppids(results[1].games), LAMBDA a :
        \A i \in DOMAIN results : \E j \in DOMAIN results[i].games :
            results[i].games[j].appid = a)

\* ------------------------------------------------------------ search-game
ToLowerCase(s) ==
    [i \in DOMAIN s |->
        CASE s[i] = "P" -> "p" [] s[i] = "O" -> "o" [] s[i] = "X" -> "x"
          [] s[i] = "Z" -> "z" [] OTHER -> s[i]]

\* String.prototype.includes
Includes(s, q) ==
    \E i \in 0..(Len(s) - Len(q)) : SubSeq(s, i + 1, i + Len(q)) = q

\* appList.filter(app => name.toLowerCase().includes(query.toLowerCase()))
\*        .slice(0, 20)
PotentialApps(q) ==
    Slice(SelectSeq(AppCatalogue, LAMBDA app :
              Includes(ToLowerCase(app.name), ToLowerCase(q))), SliceCap)

\* ids.filter((id, index) => userGamesSets[index].has(app.appid)); a failed
\* fetch stands for the empty set.
RECURSIVE SearchOwners(_, _, _, _)
SearchOwners(idList, results, a, i) ==
    IF i > Len(idList) THEN << >>
    ELSE (IF IsLibrary(results[i])
             /\ \E j \in DOMAIN results[i].games : results[i].games[j].appid = a
          THEN <<idList[i]>> ELSE << >>)
            \o SearchOwners(idList, results, a, i + 1)

\* ------------------------------------------------------------------ state
VARIABLES
    variant,              \* which version of the handler serves the request
    steamids,             \* req.query.steamids: Missing or the ids it lists
    threshold,            \* req.query.threshold: NoParam or its text
    steamid,              \* req.query.steamid (/api/user, /api/friends)
    query,                \* req.query.query (search-game): Missing or text
    pc,                   \* where the handler is suspended
    ownershipThreshold,   \* the parsed threshold
    cursor,               \* sequential version: position of `for (const id of ids)`
    appList,              \* state of the GetAppList call
    owned,                \* per position of ids: state of its GetOwnedGames call
    publicProfilesCount,  \* libraries folded so far
    gameOwnershipMap,     \* appid -> {owners, playtimes}, in insertion order
    ratios,               \* the ownershipRatio computed for each map entry
    matchedGames,         \* the candidates, filtered and sorted
    targets,              \* the candidates that are enriched (after slice)
    details,              \* per target: state of its appdetails call
    players,              \* per target: state of its player-count call
    profile,              \* state of the GetFriendList / GetPlayerSummaries calls
    issued,               \* how often each upstream call was issued
    responses             \* what res.json / res.status().json sent, in order

vars == <<variant, steamids, steamid, threshold, query, pc, ownershipThreshold,
          cursor, appList, owned, publicProfilesCount, gameOwnershipMap,
          ratios, matchedGames, targets, details, players, profile, issued,
          responses>>

\* const ids = steamids.split(','): the parameter is kept as the list of the
\* ids between its commas.
ids == steamids

NotIssued == OwnedAnswer("notissued", << >>)
Pending == OwnedAnswer("pending", << >>)
PlayersNotIssued == PlayersAnswer("notissued", 0)
PlayersPending == PlayersAnswer("pending", 0)

\* A call that is sent a second time (a retry).
IssueCallWithRetry(n) == n + 2

\* axios.get(url): the call is issued once each time the line is reached;
\* `issued` counts the calls per endpoint and per position or candidate.
IssueCall(n) == n + 1
IssueAt(counts, positions) ==
    [i \in DOMAIN counts |->
        IF i \in positions THEN IssueCall(counts[i]) ELSE counts[i]]
NoneOf(s) == [i \in DOMAIN s |-> 0]
NothingIssued ==
    [owned |-> << >>, details |-> << >>, players |-> << >>, applist |-> 0,
     friendlist |-> 0, summaries |-> 0]

Init ==
    /\ variant \in Variants
    /\ steamids \in (IF variant \in {"user", "friends"} THEN {Missing}
                     ELSE IdLists \cup {Missing})
    /\ steamid \in (IF variant \in {"user", "friends"}
                    THEN {Missing, <<PlayerNames[1]>>} ELSE {Missing})
    /\ threshold \in (IF variant \in {"settled", "batch", "sequential"}
                      THEN ThresholdParams ELSE {NoParam})
    /\ query \in (IF variant = "search" THEN QueryParams ELSE {Missing})
    /\ pc = "start"
    /\ ownershipThreshold = NaN
    /\ cursor = 0
    /\ appList = "notissued"
    /\ owned = << >>
    /\ publicProfilesCount = 0
    /\ gameOwnershipMap = << >>
    /\ ratios = << >>
    /\ matchedGames = << >>
    /\ targets = << >>
    /\ details = << >>
    /\ players = << >>
    /\ profile = [friendlist |-> "notissued", summaries |-> "notissued"]
    /\ issued = NothingIssued
    /\ responses = << >>

Respond(status, body) ==
    /\ responses' = Append(responses, [status |-> status, body |-> body])
    /\ pc' = "done"

ErrorBody == [error |-> TRUE]

\* The catch of the handler's outer try: res.status(500).json(...)
ServerError == Respond(500, ErrorBody)

\* gameDetailsPromises = candidates.map(async game => ...): every arrow
\* function runs to its first await, the appdetails call.  With no candidate
\* Promise.all([]) resolves and the response is sent.
StartEnrichment(cands, count) ==
    /\ targets' = cands
    /\ details' = [k \in DOMAIN cands |-> "pending"]
    /\ players' = [k \in DOMAIN cands |-> PlayersNotIssued]
    /\ issued' = [issued EXCEPT !.details = IssueAt(NoneOf(cands), DOMAIN cands),
                                !.players = NoneOf(cands)]
    /\ IF cands = << >>
       THEN Respond(200, FinalBody(variant, << >>, ids, count))
       ELSE /\ pc' = "enriching"
            /\ UNCHANGED responses

\* From the end of the fetch stage to the next await (shared-games, all but
\* the oldest version): the empty-result guard, the ratio loop, the sort and
\* the slice.
Aggregate(map, count) ==
    /\ gameOwnershipMap' = map
    /\ publicProfilesCount' = count
    /\ IF count = 0 /\ variant \in {"settled", "batch", "sequential"}
       THEN /\ Respond(200, EmptyBody(variant, ids))
            /\ UNCHANGED <<ratios, matchedGames, targets, details, players,
                           issued>>
       ELSE /\ ratios' = Ratios(variant, map, ids, count)
            /\ matchedGames' =
                  Sort(variant, Matched(variant, map, ids, count, ownershipThreshold))
            /\ StartEnrichment(TopCandidates(matchedGames'), count)

\* if (!steamids) / if (!steamid) / if (!query || !steamids): the check
\* each handler makes before anything else.
ParamsMissingQueryOnly(v, idsParam, idParam, q) ==
    CASE v \in {"user", "friends"} -> idParam = Missing
      [] v = "search" -> q = Missing
      [] OTHER -> idsParam = Missing

ParamsMissing(v, idsParam, idParam, q) ==
    CASE v \in {"user", "friends"} -> idParam = Missing
      [] v = "search" -> q = Missing \/ idsParam = Missing
      [] OTHER -> idsParam = Missing

\* The sequential version issues the call of the first id only.
SequentialIssuesAll(idList) == DOMAIN idList
SequentialIssues(idList) == {1}

\* The positions of ids whose GetOwnedGames call the handler issues before
\* its first await.
FirstIssued(v, idList) ==
    CASE v = "sequential" -> SequentialIssues(idList)
      [] v \in {"search", "user", "friends"} -> {}
      [] OTHER -> DOMAIN idList

\* A request arrives: the handler runs to its first await.
HandleRequest ==
    /\ pc = "start"
    /\ IF ParamsMissing(variant, steamids, steamid, query)
       THEN \* if (!steamids) return res.status(400).json(...)
            /\ Respond(400, ErrorBody)
            /\ UNCHANGED <<ownershipThreshold, cursor, appList, owned, profile,
                           issued>>
       ELSE /\ ownershipThreshold' =
                  IF variant \in {"user", "friends"} THEN ownershipThreshold
                  ELSE OwnershipThreshold(variant, threshold)
            /\ pc' = CASE variant = "search" -> "applist"
                       [] variant = "user" -> "user_summaries"
                       [] variant = "friends" -> "friend_list"
                       [] OTHER -> "fetching"
            /\ appList' = IF variant = "search" THEN "pending" ELSE appList
            /\ cursor' = IF variant = "sequential" THEN 1 ELSE cursor
            /\ owned' = [i \in DOMAIN ids |->
                            IF i \in FirstIssued(variant, ids)
                            THEN Pending ELSE NotIssued]
            /\ profile' =
                  CASE variant = "user" -> [profile EXCEPT !.summaries = "pending"]
                    [] variant = "friends" ->
                          [profile EXCEPT !.friendlist = "pending"]
                    [] OTHER -> profile
            /\ issued' =
                  [issued EXCEPT
                     !.owned = IssueAt(NoneOf(ids), FirstIssued(variant, ids)),
                     !.applist = IF variant = "search" THEN IssueCall(@) ELSE @,
                     !.summaries = IF variant = "user" THEN IssueCall(@) ELSE @,
                     !.friendlist =
                        IF variant = "friends" THEN IssueCall(@) ELSE @]
            /\ UNCHANGED responses
    /\ UNCHANGED <<variant, steamids, steamid, threshold, query,
                   publicProfilesCount, gameOwnershipMap, ratios, matchedGames,
                   targets, details, players>>

\* /api/user: the GetPlayerSummaries call answers and its body is passed on.
UserReply(answer) ==
    /\ variant = "user"
    /\ pc = "user_summaries"
    /\ profile.summaries = "pending"
    /\ profile' = [profile EXCEPT !.summaries = answer]
    /\ IF answer = "rejected" THEN ServerError
       ELSE Respond(200, [data |-> answer])
    /\ UNCHANGED <<variant, steamids, steamid, threshold, query,
                   ownershipThreshold, cursor, appList, owned,
                   publicProfilesCount, gameOwnershipMap, ratios, matchedGames,
                   targets, details, players, issued>>

\* /api/friends: GetFriendList answers; with friends listed one
\* GetPlayerSummaries call is issued for all of them.
FriendListReply(answer) ==
    /\ variant = "friends"
    /\ pc = "friend_list"
    /\ profile.friendlist = "pending"
    /\ CASE answer = "rejected" ->
              /\ profile' = [profile EXCEPT !.friendlist = answer]
              /\ ServerError
              /\ UNCHANGED issued
         [] answer \in {"nolist", "empty"} ->
              /\ profile' = [profile EXCEPT !.friendlist = answer]
              /\ Respond(200, [friendslist |-> [friends |-> << >>]])
              /\ UNCHANGED issued
         [] OTHER ->
              /\ profile' = [friendlist |-> answer, summaries |-> "pending"]
              /\ issued' = [issued EXCEPT !.summaries = IssueCall(@)]
              /\ pc' = "friend_summaries"
              /\ UNCHANGED responses
    /\ UNCHANGED <<variant, steamids, steamid, threshold, query,
                   ownershipThreshold, cursor, appList, owned,
                   publicProfilesCount, gameOwnershipMap, ratios, matchedGames,
                   targets, details, players>>

\* /api/friends: the summaries answer; response.players.map throws on a body
\* without `response`.
FriendSummariesReply(answer) ==
    /\ variant = "friends"
    /\ pc = "friend_summaries"
    /\ profile.summaries = "pending"
    /\ profile' = [profile EXCEPT !.summaries = answer]
    /\ IF answer \in {"rejected", "noresponse"} THEN ServerError
       ELSE Respond(200, [friendslist |-> [friends |-> <<"friend">>]])
    /\ UNCHANGED <<variant, steamids, steamid, threshold, query,
                   ownershipThreshold, cursor, appList, owned,
                   publicProfilesCount, gameOwnershipMap, ratios, matchedGames,
                   targets, details, players, issued>>

\* ------------------------------------------------------------ fetch stage
Outstanding(answer) == answer.kind \in {"notissued", "pending", "hung"}
AllAnswered(results) == \A j \in DOMAIN results : ~Outstanding(results[j])

\* The first position whose answer makes the handler's own code throw.
FirstThrow(v, results) ==
    CHOOSE t \in DOMAIN results :
        /\ ThrowsOn(v, results[t])
        /\ \A u \in 1..(t - 1) : ~ThrowsOn(v, results[u])

\* Sequential version: the awaited call of the current id answers; its
\* library is folded, a failure is caught, and the loop awaits delay(200).
SequentialOwnedReply(i, answer) ==
    /\ variant = "sequential"
    /\ pc = "fetching"
    /\ i = cursor
    /\ owned[i].kind = "pending"
    /\ owned' = [owned EXCEPT ![i] = answer]
    /\ IF IsLibrary(answer)
       THEN /\ publicProfilesCount' = publicProfilesCount + 1
            /\ gameOwnershipMap' =
                  FoldGames(variant, gameOwnershipMap, ids[i], answer.games)
       ELSE UNCHANGED <<publicProfilesCount, gameOwnershipMap>>
    /\ pc' = "delay"
    /\ UNCHANGED <<variant, steamids, steamid, threshold, query, profile,
                   ownershipThreshold, cursor, appList, ratios, matchedGames,
                   targets, details, players, issued, responses>>

\* Sequential version: the 200 ms timer fires; the loop issues the call of
\* the next id, or ends and the handler aggregates.
DelayElapsed ==
    /\ variant = "sequential"
    /\ pc = "delay"
    /\ IF cursor < Len(ids)
       THEN /\ cursor' = cursor + 1
            /\ owned' = [owned EXCEPT ![cursor + 1] = Pending]
            /\ issued' = [issued EXCEPT !.owned = IssueAt(@, {cursor + 1})]
            /\ pc' = "fetching"
            /\ UNCHANGED <<publicProfilesCount, gameOwnershipMap, ratios,
                           matchedGames, targets, details, players, responses>>
       ELSE /\ Aggregate(gameOwnershipMap, publicProfilesCount)
            /\ UNCHANGED <<cursor, owned>>
    /\ UNCHANGED <<variant, steamids, steamid, threshold, query, profile,
                   ownershipThreshold,
                   appList>>

\* Batch and settled versions: await Promise.allSettled(promises).  The
\* handler resumes when the last call has settled and folds the results in
\* the order of ids; the batch version throws on a body without `response`.
SettledOwnedReply(i, answer) ==
    /\ variant \in {"batch", "settled"}
    /\ pc = "fetching"
    /\ owned[i].kind = "pending"
    /\ owned' = [owned EXCEPT ![i] = answer]
    /\ IF ~AllAnswered(owned')
       THEN UNCHANGED <<pc, publicProfilesCount, gameOwnershipMap, ratios,
                        matchedGames, targets, details, players, issued,
                        responses>>
       ELSE IF \E j \in DOMAIN owned' : ThrowsOn(variant, owned'[j])
       THEN LET t == FirstThrow(variant, owned')
            IN  /\ gameOwnershipMap' =
                      FoldResults(variant, << >>, ids, owned', 1, t - 1)
                /\ publicProfilesCount' = CountLibraries(owned', t - 1)
                /\ ServerError
                /\ UNCHANGED <<ratios, matchedGames, targets, details, players,
                               issued>>
       ELSE Aggregate(FoldResults(variant, << >>, ids, owned', 1, Len(ids)),
                      CountLibraries(owned', Len(ids)))
    /\ UNCHANGED <<variant, steamids, steamid, threshold, query, profile,
                   ownershipThreshold,
                   cursor, appList>>

\* index.js: await Promise.all(promises) rejects with the first call that
\* rejects and the outer catch answers 500; with every call fulfilled the
\* results are folded, which throws on a body without `response`.
AllOwnedReply(i, answer) ==
    /\ variant = "index"
    /\ pc = "fetching"
    /\ owned[i].kind = "pending"
    /\ owned' = [owned EXCEPT ![i] = answer]
    /\ IF answer.kind = "rejected"
       THEN /\ ServerError
            /\ UNCHANGED <<publicProfilesCount, gameOwnershipMap, ratios,
                           matchedGames, targets, details, players, issued>>
       ELSE IF ~AllAnswered(owned')
       THEN UNCHANGED <<pc, publicProfilesCount, gameOwnershipMap, ratios,
                        matchedGames, targets, details, players, issued,
                        responses>>
       ELSE IF \E j \in DOMAIN owned' : ThrowsOn(variant, owned'[j])
       THEN /\ gameOwnershipMap' =
                  FoldResults(variant, << >>, ids, owned', 1,
                              FirstThrow(variant, owned') - 1)
            /\ ServerError
            /\ UNCHANGED <<publicProfilesCount, ratios, matchedGames, targets,
                           details, players, issued>>
       ELSE Aggregate(FoldResults(variant, << >>, ids, owned', 1, Len(ids)), 0)
    /\ UNCHANGED <<variant, steamids, steamid, threshold, query, profile,
                   ownershipThreshold,
                   cursor, appList>>

\* Oldest version: await Promise.all(promises) as in index.js; then the
\* intersection of the libraries, which throws on a body without a games
\* list, and one appdetails call for each of the first shared games.
OldestOwnedReply(i, answer) ==
    /\ variant = "oldest"
    /\ pc = "fetching"
    /\ owned[i].kind = "pending"
    /\ owned' = [owned EXCEPT ![i] = answer]
    /\ IF answer.kind = "rejected"
       THEN /\ ServerError
            /\ UNCHANGED <<targets, details, players, issued>>
       ELSE IF ~AllAnswered(owned')
       THEN UNCHANGED <<pc, targets, details, players, issued, responses>>
       ELSE IF \E j \in DOMAIN owned' : ThrowsOn(variant, owned'[j])
       THEN /\ ServerError
            /\ UNCHANGED <<targets, details, players, issued>>
       ELSE LET shared == Slice(SharedGameIds(owned'), SliceCap)
            IN  /\ targets' = [k \in DOMAIN shared |-> [appid |-> shared[k]]]
                /\ details' = [k \in DOMAIN shared |-> "pending"]
                /\ players' = [k \in DOMAIN shared |-> PlayersNotIssued]
                /\ issued' =
                      [issued EXCEPT
                         !.details = IssueAt(NoneOf(shared), DOMAIN shared),
                         !.players = NoneOf(shared)]
                /\ IF shared = << >>
                   THEN Respond(200, [games |-> << >>])
                   ELSE /\ pc' = "oldest_details"
                        /\ UNCHANGED responses
    /\ UNCHANGED <<variant, steamids, steamid, threshold, query, profile,
                   ownershipThreshold,
                   cursor, appList, publicProfilesCount, gameOwnershipMap,
                   ratios, matchedGames>>

\* search-game: GetAppList answers; the apps matching the query are kept and
\* every library is requested at once.
AppListReply(answer) ==
    /\ variant = "search"
    /\ pc = "applist"
    /\ appList = "pending"
    /\ appList' = answer
    /\ IF answer = "rejected"
       THEN /\ ServerError
            /\ UNCHANGED <<owned, issued>>
       ELSE IF PotentialApps(query) = << >>
       THEN /\ Respond(200, [games |-> << >>])
            /\ UNCHANGED <<owned, issued>>
       ELSE /\ owned' = [i \in DOMAIN ids |-> Pending]
            /\ issued' = [issued EXCEPT !.owned = IssueAt(@, DOMAIN ids)]
            /\ pc' = "fetching"
            /\ UNCHANGED responses
    /\ UNCHANGED <<variant, steamids, steamid, threshold, query, profile,
                   ownershipThreshold,
                   cursor, publicProfilesCount, gameOwnershipMap, ratios,
                   matchedGames, targets, details, players>>

\* search-game: await Promise.allSettled(promises); a failed fetch counts as
\* an empty library.  Every potential app is then enriched.
SearchOwnedReply(i, answer) ==
    /\ variant = "search"
    /\ pc = "fetching"
    /\ owned[i].kind = "pending"
    /\ owned' = [owned EXCEPT ![i] = answer]
    /\ IF ~AllAnswered(owned')
       THEN UNCHANGED <<pc, targets, details, players, issued, responses>>
       ELSE LET apps == PotentialApps(query)
            IN  StartEnrichment(
                    [k \in DOMAIN apps |->
                        [appid |-> apps[k].appid,
                         owners |-> SearchOwners(ids, owned', apps[k].appid, 1),
                         playtimes |-> EmptyObject]], 0)
    /\ UNCHANGED <<variant, steamids, steamid, threshold, query, profile,
                   ownershipThreshold,
                   cursor, appList, publicProfilesCount, gameOwnershipMap,
                   ratios, matchedGames>>

\* ------------------------------------------------------- enrichment stage
\* Whether the arrow function of target k has returned.
Returned(dets, pls, k) ==
    \/ dets[k] \in {"rejected", "nosuccess"}
    \/ dets[k] = "ok" /\ pls[k].kind \notin {"notissued", "pending", "hung"}

\* const finalGames = (await Promise.all(promises)).filter(Boolean);
\* res.json(...) once every arrow function has returned.
FinishEnrichment(dets, pls) ==
    IF \A k \in DOMAIN targets : Returned(dets, pls, k)
    THEN Respond(200, FinalBody(variant,
                                FinalGames(variant, ids, targets, dets, pls, 1),
                                ids, publicProfilesCount))
    ELSE UNCHANGED <<pc, responses>>

\* As DetailsSucceeded, without the test of the success flag.
DetailsAnswered(answer) == answer # "rejected"

\* if (details && details.success): the player-count call is issued only
\* for a metadata answer that carries the success flag.
DetailsSucceeded(answer) == answer = "ok"

\* The appdetails call of target k answers: on success the player-count call
\* is issued, otherwise the arrow function returns null.
AppDetailsReply(k, answer) ==
    /\ variant # "oldest"
    /\ pc = "enriching"
    /\ details[k] = "pending"
    /\ details' = [details EXCEPT ![k] = answer]
    /\ players' = IF DetailsSucceeded(answer)
                  THEN [players EXCEPT ![k] = PlayersPending]
                  ELSE players
    /\ issued' = IF DetailsSucceeded(answer)
                 THEN [issued EXCEPT !.players = IssueAt(@, {k})]
                 ELSE issued
    /\ FinishEnrichment(details', players')
    /\ UNCHANGED <<variant, steamids, steamid, threshold, query, profile,
                   ownershipThreshold,
                   cursor, appList, owned, publicProfilesCount,
                   gameOwnershipMap, ratios, matchedGames, targets>>

\* The player-count call of target k answers and the arrow function returns.
PlayerCountReply(k, answer) ==
    /\ variant # "oldest"
    /\ pc = "enriching"
    /\ players[k].kind = "pending"
    /\ players' = [players EXCEPT ![k] = answer]
    /\ FinishEnrichment(details, players')
    /\ UNCHANGED <<variant, steamids, steamid, threshold, query, profile,
                   ownershipThreshold,
                   cursor, appList, owned, publicProfilesCount,
                   gameOwnershipMap, ratios, matchedGames, targets, details,
                   issued>>

\* Oldest version: the appdetails calls are joined by Promise.all with no
\* catch of their own: one rejection answers 500.  Entries without data are
\* filtered out and a player-count call is issued for each of the others.
OldestDetailsReply(k, answer) ==
    /\ variant = "oldest"
    /\ pc = "oldest_details"
    /\ details[k] = "pending"
    /\ details' = [details EXCEPT ![k] = answer]
    /\ IF answer = "rejected"
       THEN /\ ServerError
            /\ UNCHANGED <<players, issued>>
       ELSE IF \E j \in DOMAIN details' : details'[j] \in {"pending", "hung"}
       THEN UNCHANGED <<pc, players, issued, responses>>
       ELSE /\ players' = [j \in DOMAIN targets |->
                             IF details'[j] = "ok" THEN PlayersPending
                             ELSE PlayersNotIssued]
            /\ issued' =
                  [issued EXCEPT
                     !.players =
                        IssueAt(@, {j \in DOMAIN targets : details'[j] = "ok"})]
            /\ IF \A j \in DOMAIN targets : details'[j] # "ok"
               THEN Respond(200, [games |-> << >>])
               ELSE /\ pc' = "oldest_players"
                    /\ UNCHANGED responses
    /\ UNCHANGED <<variant, steamids, steamid, threshold, query, profile,
                   ownershipThreshold,
                   cursor, appList, owned, publicProfilesCount,
                   gameOwnershipMap, ratios, matchedGames, targets>>

\* game.player_count = playersResponse.data.response.player_count; an
\* undefined count is left out of the JSON body.
OldestGame(a, reply) ==
    IF reply.kind = "count"
    THEN [steam_appid |-> a, player_count |-> reply.player_count]
    ELSE [steam_appid |-> a]

RECURSIVE OldestGames(_, _, _)
OldestGames(cands, pls, k) ==
    IF k > Len(cands) THEN << >>
    ELSE (IF pls[k].kind \in {"count", "nofield"}
          THEN <<OldestGame(cands[k].appid, pls[k])>> ELSE << >>)
            \o OldestGames(cands, pls, k + 1)

\* Oldest version: the player-count calls are joined by Promise.all too.
OldestPlayersReply(k, answer) ==
    /\ variant = "oldest"
    /\ pc = "oldest_players"
    /\ players[k].kind = "pending"
    /\ players' = [players EXCEPT ![k] = answer]
    /\ IF PlayersThrows(answer)
       THEN ServerError
       ELSE IF \E j \in DOMAIN players' : players'[j].kind \in {"pending", "hung"}
       THEN UNCHANGED <<pc, responses>>
       ELSE Respond(200, [games |-> OldestGames(targets, players', 1)])
    /\ UNCHANGED <<variant, steamids, steamid, threshold, query, profile,
                   ownershipThreshold,
                   cursor, appList, owned, publicProfilesCount,
                   gameOwnershipMap, ratios, matchedGames, targets, details,
                   issued>>

\* ------------------------------------------------ answers after the response
\* Promise.all rejects with the first rejection (and the handler's catch has
\* answered 500) while the other calls of the array are still on their way:
\* their answers arrive later and settle promises nobody awaits any more.
LateOwnedReply(i, answer) ==
    /\ pc = "done"
    /\ owned[i].kind = "pending"
    /\ owned' = [owned EXCEPT ![i] = answer]
    /\ UNCHANGED <<variant, steamids, steamid, threshold, query, pc,
                   ownershipThreshold, cursor, appList, publicProfilesCount,
                   gameOwnershipMap, ratios, matchedGames, targets, details,
                   players, profile, issued, responses>>

LateDetailsReply(k, answer) ==
    /\ pc = "done"
    /\ details[k] = "pending"
    /\ details' = [details EXCEPT ![k] = answer]
    /\ UNCHANGED <<variant, steamids, steamid, threshold, query, pc,
                   ownershipThreshold, cursor, appList, owned,
                   publicProfilesCount, gameOwnershipMap, ratios, matchedGames,
                   targets, players, profile, issued, responses>>

LatePlayersReply(k, answer) ==
    /\ pc = "done"
    /\ players[k].kind = "pending"
    /\ players' = [players EXCEPT ![k] = answer]
    /\ UNCHANGED <<variant, steamids, steamid, threshold, query, pc,
                   ownershipThreshold, cursor, appList, owned,
                   publicProfilesCount, gameOwnershipMap, ratios, matchedGames,
                   targets, details, profile, issued, responses>>

\* ------------------------------------------------------------ specification
Next ==
    \/ HandleRequest
    \/ \E i \in DOMAIN owned : \E answer \in OwnedReplies :
          SequentialOwnedReply(i, answer)
    \/ DelayElapsed
    \/ \E i \in DOMAIN owned : \E answer \in OwnedReplies :
          SettledOwnedReply(i, answer)
    \/ \E i \in DOMAIN owned : \E answer \in OwnedReplies :
          AllOwnedReply(i, answer)
    \/ \E i \in DOMAIN owned : \E answer \in OwnedReplies :
          OldestOwnedReply(i, answer)
    \/ \E answer \in AppListReplies : AppListReply(answer)
    \/ \E i \in DOMAIN owned : \E answer \in OwnedReplies :
          SearchOwnedReply(i, answer)
    \/ \E k \in DOMAIN targets : \E answer \in DetailsReplies :
          AppDetailsReply(k, answer)
    \/ \E k \in DOMAIN targets : \E answer \in PlayersReplies :
          PlayerCountReply(k, answer)
    \/ \E k \in DOMAIN targets : \E answer \in DetailsReplies :
          OldestDetailsReply(k, answer)
    \/ \E k \in DOMAIN targets : \E answer \in PlayersReplies :
          OldestPlayersReply(k, answer)
    \/ \E answer \in SummariesReplies : UserReply(answer)
    \/ \E answer \in FriendListReplies : FriendListReply(answer)
    \/ \E answer \in SummariesReplies : FriendSummariesReply(answer)
    \/ \E i \in DOMAIN owned : \E answer \in OwnedReplies :
          LateOwnedReply(i, answer)
    \/ \E k \in DOMAIN targets : \E answer \in DetailsReplies :
          LateDetailsReply(k, answer)
    \/ \E k \in DOMAIN targets : \E answer \in PlayersReplies :
          LatePlayersReply(k, answer)

Spec == Init /\ [][Next]_vars

\* ---------------------------------------------- upstream that never answers
\* axios.get(url) is called without a timeout option and axios has none by
\* default: a call whose server never answers stays outstanding for good.
\* The actions below mark such a call; under Spec every call can still answer.
Hung == OwnedAnswer("hung", << >>)
PlayersHung == PlayersAnswer("hung", 0)

OwnedNeverAnswers(i) ==
    /\ pc = "fetching"
    /\ owned[i].kind = "pending"
    /\ owned' = [owned EXCEPT ![i] = Hung]
    /\ UNCHANGED <<variant, steamids, steamid, threshold, query, pc,
                   ownershipThreshold, cursor, appList, publicProfilesCount,
                   gameOwnershipMap, ratios, matchedGames, targets, details,
                   players, profile, issued, responses>>

DetailsNeverAnswers(k) ==
    /\ pc \in {"enriching", "oldest_details"}
    /\ details[k] = "pending"
    /\ details' = [details EXCEPT ![k] = "hung"]
    /\ UNCHANGED <<variant, steamids, steamid, threshold, query, pc,
                   ownershipThreshold, cursor, appList, owned,
                   publicProfilesCount, gameOwnershipMap, ratios, matchedGames,
                   targets, players, profile, issued, responses>>

PlayersNeverAnswers(k) ==
    /\ pc \in {"enriching", "oldest_players"}
    /\ players[k].kind = "pending"
    /\ players' = [players EXCEPT ![k] = PlayersHung]
    /\ UNCHANGED <<variant, steamids, steamid, threshold, query, pc,
                   ownershipThreshold, cursor, appList, owned,
                   publicProfilesCount, gameOwnershipMap, ratios, matchedGames,
                   targets, details, profile, issued, responses>>

NextHang ==
    \/ Next
    \/ \E i \in DOMAIN owned : OwnedNeverAnswers(i)
    \/ \E k \in DOMAIN targets : DetailsNeverAnswers(k)
    \/ \E k \in DOMAIN targets : PlayersNeverAnswers(k)

SpecHang == Init /\ [][NextHang]_vars

\* =================================================================== claims
\* What the properties below read off a state.
Done == pc = "done"
Answered200 == Done /\ Len(responses) = 1 /\ responses[1].status = 200
ReturnedGames == responses[1].body.games

\* The positions of ids whose library fetch succeeded / failed, read off the
\* upstream answers and not off the handler's counter.
FetchSucceeded == {i \in DOMAIN owned : owned[i].kind = "games"}
FetchFailed ==
    {i \in DOMAIN owned : owned[i].kind \in {"rejected", "noresponse", "nogames"}}

\* The filter and the sort have run.
Ranked == (pc = "enriching" \/ Answered200) /\ FetchSucceeded # {}

CandidateIds == {matchedGames[k].appid : k \in DOMAIN matchedGames}

\* Occurrences of x in the sequence s.
Occurrences(s, x) == Cardinality({i \in DOMAIN s : s[i] = x})

\* How often the libraries fetched for player p list game a.
RECURSIVE ListedTimes(_, _, _)
ListedTimes(p, a, i) ==
    IF i > Len(owned) THEN 0
    ELSE (IF i \in FetchSucceeded /\ ids[i] = p
          THEN Cardinality({j \in DOMAIN owned[i].games : owned[i].games[j].appid = a})
          ELSE 0) + ListedTimes(p, a, i + 1)

\* C1: the ratio compared with the threshold is |owners| divided by the
\* number of players whose library fetch succeeded (sequential version and
\* index.js), so a game is a candidate iff that ratio meets the threshold.
C1_RatioOverSuccessfulFetches ==
    variant \in {"sequential", "index"} =>
        \A i \in DOMAIN ratios :
            /\ ratios[i].num = Len(gameOwnershipMap[i].owners)
            /\ ratios[i].den = Cardinality(FetchSucceeded)
            /\ (ratios[i].appid \in CandidateIds) <=>
                  (ratios[i].num * 100
                      >= ownershipThreshold.hundredths * Cardinality(FetchSucceeded))

\* C2: with at least one library fetched, a game of the ownership map is a
\* candidate iff |owners| / (number of fetched libraries) >= the threshold,
\* the boundary included (sequential and settled versions).
C2_CandidateIffRatioMeetsThreshold ==
    (variant \in {"sequential", "settled"} /\ Ranked) =>
        \A i \in DOMAIN gameOwnershipMap :
            (gameOwnershipMap[i].appid \in CandidateIds) <=>
                (Len(gameOwnershipMap[i].owners) * 100
                    >= ownershipThreshold.hundredths * Cardinality(FetchSucceeded))

\* C2 witness: one owner among two fetched libraries at threshold 0.5 is a
\* candidate.
C2_BoundaryCandidate ==
    /\ variant \in {"sequential", "settled"}
    /\ Ranked
    /\ ownershipThreshold = Num(50)
    /\ Cardinality(FetchSucceeded) = 2
    /\ \E k \in DOMAIN matchedGames : Len(matchedGames[k].owners) = 1

\* C3: when no library fetch succeeds the response is 200 with
\* {games: [], publicProfilesScanned: 0, totalProfilesRequested: N}; no ratio
\* is computed and no enrichment lookup is issued (sequential and settled
\* versions).
C3_NoLibraryGivesEmptyResultWithCounts ==
    (variant \in {"sequential", "settled"} /\ Done /\ steamids # Missing
        /\ FetchSucceeded = {}) =>
        /\ responses = << [status |-> 200,
                           body |-> [games |-> << >>,
                                     publicProfilesScanned |-> 0,
                                     totalProfilesRequested |-> Len(ids)]] >>
        /\ ratios = << >>
        /\ details = << >>
        /\ players = << >>

\* C4: a failed library fetch never aborts the aggregation: the request does
\* not end in 500, every fetched library is folded (each player is listed as
\* owner of a game as often as the libraries fetched for that player list
\* it), and only fetched libraries are counted (sequential version and
\* index.js).
C4_FetchFailureNeverAborts ==
    (variant \in {"sequential", "index"} /\ Done /\ FetchFailed # {}) =>
        /\ responses[1].status = 200
        /\ \A i \in FetchSucceeded : \A j \in DOMAIN owned[i].games :
              HasKey(gameOwnershipMap, owned[i].games[j].appid)
        /\ \A e \in DOMAIN gameOwnershipMap : \A p \in Range(ids) :
              Occurrences(gameOwnershipMap[e].owners, p)
                  = ListedTimes(p, gameOwnershipMap[e].appid, 1)
        /\ variant = "sequential" =>
              publicProfilesCount = Cardinality(FetchSucceeded)

\* C5: every 200 response of shared-games carries totalProfilesRequested =
\* the number of requested ids and publicProfilesScanned = the number of
\* fetched libraries (sequential and settled versions).
C5_SuccessfulResponseCarriesCounts ==
    (variant \in {"sequential", "settled"} /\ Answered200) =>
        /\ {"publicProfilesScanned", "totalProfilesRequested"}
              \subseteq DOMAIN responses[1].body
        /\ responses[1].body.totalProfilesRequested = Len(ids)
        /\ responses[1].body.publicProfilesScanned = Cardinality(FetchSucceeded)
        /\ responses[1].body.publicProfilesScanned
              <= responses[1].body.totalProfilesRequested

\* C6: in every returned game, owners and nonOwners partition the requested
\* ids: owners are requested ids, the two share no id, together they are the
\* requested ids, and nonOwners keeps the order of the requested list
\* (every version that returns owners: all but the oldest).
C6_OwnersNonOwnersPartition ==
    (variant \in {"index", "settled", "batch", "sequential", "search"}
        /\ Answered200) =>
        \A g \in DOMAIN ReturnedGames :
            LET game == ReturnedGames[g]
            IN  /\ Range(game.owners) \subseteq Range(ids)
                /\ Range(game.owners) \cap Range(game.nonOwners) = {}
                /\ Range(game.owners) \cup Range(game.nonOwners) = Range(ids)
                /\ game.nonOwners =
                      SelectSeq(ids, LAMBDA id : id \in Range(game.nonOwners))

\* C6 witness: a returned game that one requested player owns and another
\* does not, from shared-games and from search-game.
C6_GameWithOwnerAndNonOwner ==
    /\ variant \in {"sequential", "search"}
    /\ Answered200
    /\ \E g \in DOMAIN ReturnedGames :
          ReturnedGames[g].owners # << >> /\ ReturnedGames[g].nonOwners # << >>

\* C7: the candidates are ordered by descending number of owners and, among
\* equal numbers of owners, by ascending game id (sequential and settled
\* versions).
C7_RankedByOwnersThenAppid ==
    variant \in {"sequential", "settled"} =>
        \A i, j \in DOMAIN matchedGames :
            i < j =>
                \/ Len(matchedGames[i].owners) > Len(matchedGames[j].owners)
                \/ /\ Len(matchedGames[i].owners) = Len(matchedGames[j].owners)
                   /\ matchedGames[i].appid < matchedGames[j].appid

\* C8: enrichment lookups are issued only for the first SliceCap candidates
\* of the ranking, and the returned list has at most SliceCap games, none of
\* them ranked below position SliceCap (sequential and settled versions).
C8_OnlyTopCandidatesEnriched ==
    variant \in {"sequential", "settled"} =>
        /\ Len(targets) <= SliceCap
        /\ DOMAIN details = DOMAIN targets
        /\ DOMAIN players = DOMAIN targets
        /\ \A k \in DOMAIN targets :
              k \in DOMAIN matchedGames /\ targets[k] = matchedGames[k]
        /\ Answered200 =>
              /\ Len(ReturnedGames) <= SliceCap
              /\ \A g \in DOMAIN ReturnedGames :
                    \E k \in 1..SliceCap :
                        /\ k \in DOMAIN matchedGames
                        /\ matchedGames[k].appid = ReturnedGames[g].steam_appid

\* C8 witness: more candidates than the cap, and a full list returned.
C8_MoreCandidatesThanCap ==
    /\ variant \in {"sequential", "settled"}
    /\ Answered200
    /\ Len(matchedGames) > SliceCap
    /\ Len(ReturnedGames) = SliceCap

\* Whether a lookup of target k failed, and whether both succeeded.
EnrichmentFailed(k) ==
    \/ details[k] \in {"rejected", "nosuccess"}
    \/ players[k].kind \in {"rejected", "noresponse"}
EnrichmentSucceeded(k) ==
    details[k] = "ok" /\ players[k].kind \in {"nofield", "count"}
ReturnedIds == {ReturnedGames[g].steam_appid : g \in DOMAIN ReturnedGames}

\* C9: a candidate whose metadata lookup fails or lacks the success flag, or
\* whose player-count lookup fails, is left out of the returned games; the
\* request still succeeds and every candidate whose lookups succeed is
\* returned (sequential and oldest versions).
C9_FailedEnrichmentOmitsOnlyThatCandidate ==
    (variant \in {"sequential", "oldest"} /\ Done
        /\ \E k \in DOMAIN targets : EnrichmentFailed(k)) =>
        /\ responses[1].status = 200
        /\ \A k \in DOMAIN targets :
              /\ EnrichmentFailed(k) => targets[k].appid \notin ReturnedIds
              /\ EnrichmentSucceeded(k) => targets[k].appid \in ReturnedIds

\* C10 as stated: a candidate whose metadata lookup succeeded is returned
\* with player count 0 when the player-count lookup fails or its response
\* has no player_count, and with the reported count otherwise.
C10_FailedCountLookupReturnsZero ==
    (variant \in {"sequential", "settled"} /\ Answered200) =>
        \A k \in DOMAIN targets :
            details[k] = "ok" =>
                \E g \in DOMAIN ReturnedGames :
                    /\ ReturnedGames[g].steam_appid = targets[k].appid
                    /\ ReturnedGames[g].player_count =
                          (IF players[k].kind = "count"
                           THEN players[k].player_count ELSE 0)

\* C10 amended: a candidate whose metadata lookup succeeded is returned with
\* player count 0 when the player-count response has no player_count, and
\* with the reported count otherwise; when the player-count lookup fails
\* (the call rejects or the body has no response object) the candidate is
\* not returned.
C10_MissingCountIsZeroFailedLookupOmits ==
    (variant \in {"sequential", "settled"} /\ Answered200) =>
        \A k \in DOMAIN targets :
            details[k] = "ok" =>
                IF players[k].kind \in {"rejected", "noresponse"}
                THEN targets[k].appid \notin ReturnedIds
                ELSE \E g \in DOMAIN ReturnedGames :
                        /\ ReturnedGames[g].steam_appid = targets[k].appid
                        /\ ReturnedGames[g].player_count >= 0
                        /\ ReturnedGames[g].player_count =
                              (IF players[k].kind = "count"
                               THEN players[k].player_count ELSE 0)

\* C10 witness: one candidate returned with count 0 for a response without
\* player_count, another left out after its player-count call rejected.
C10_ZeroCountAndOmittedCandidate ==
    /\ variant \in {"sequential", "settled"}
    /\ Answered200
    /\ \E k \in DOMAIN targets :
          /\ details[k] = "ok"
          /\ players[k].kind = "nofield"
          /\ \E g \in DOMAIN ReturnedGames :
                /\ ReturnedGames[g].steam_appid = targets[k].appid
                /\ ReturnedGames[g].player_count = 0
    /\ \E k \in DOMAIN targets :
          /\ details[k] = "ok"
          /\ players[k].kind = "rejected"
          /\ targets[k].appid \notin ReturnedIds

\* The position of game a in the ranked, truncated candidate list.
TargetPosition(a) == CHOOSE k \in DOMAIN targets : targets[k].appid = a

\* C11: the returned games are a subsequence of the ranked, truncated
\* candidate list: every returned game is one of its candidates and any two
\* returned games keep the order of the ranking, in whatever order the
\* enrichment lookups answered (sequential and settled versions).
C11_ReturnedGamesKeepRankingOrder ==
    (variant \in {"sequential", "settled"} /\ Answered200) =>
        /\ \A g \in DOMAIN ReturnedGames :
              \E k \in DOMAIN targets :
                  targets[k].appid = ReturnedGames[g].steam_appid
        /\ \A g, h \in DOMAIN ReturnedGames :
              g < h => TargetPosition(ReturnedGames[g].steam_appid)
                          < TargetPosition(ReturnedGames[h].steam_appid)

\* C11 witness: two games are returned, the first with more owners than the
\* second.
C11_TwoGamesReturnedInRankingOrder ==
    /\ variant \in {"sequential", "settled"}
    /\ Answered200
    /\ Len(ReturnedGames) = 2
    /\ Len(ReturnedGames[1].owners) > Len(ReturnedGames[2].owners)

\* The request lacks a parameter its route requires.
RequiredParameterMissing ==
    CASE variant \in {"user", "friends"} -> steamid = Missing
      [] variant = "search" -> query = Missing \/ steamids = Missing
      [] OTHER -> steamids = Missing

\* No upstream call has been issued.
NoUpstreamCall ==
    /\ issued = NothingIssued
    /\ owned = << >> /\ details = << >> /\ players = << >>
    /\ appList = "notissued"
    /\ profile = [friendlist |-> "notissued", summaries |-> "notissued"]

\* C12: a request that lacks a required parameter (steamids for shared-games,
\* steamid for /api/user and /api/friends, query or steamids for search-game)
\* is answered 400 and no upstream call is issued for it, neither before nor
\* after the response.
C12_MissingParameterIs400WithoutCalls ==
    RequiredParameterMissing =>
        /\ NoUpstreamCall
        /\ pc \in {"start", "done"}
        /\ Done => responses = <<[status |-> 400, body |-> ErrorBody]>>

\* C12 witness: a search-game request with a query and no steamids has been
\* answered 400.
C12_SearchWithoutSteamidsAnswered400 ==
    /\ variant = "search"
    /\ query # Missing
    /\ steamids = Missing
    /\ Done
    /\ responses[1].status = 400

\* C13: in every state of an aggregation each owners list names a player at
\* most once, also with an id requested twice or a game listed twice in one
\* library, so no owners list is longer than the number of libraries fetched
\* (sequential and settled versions).
C13_OwnersListEachPlayerOnce ==
    variant \in {"sequential", "settled"} =>
        \A i \in DOMAIN gameOwnershipMap :
            /\ \A p \in Range(ids) :
                  Occurrences(gameOwnershipMap[i].owners, p) <= 1
            /\ Len(gameOwnershipMap[i].owners) <= Cardinality(FetchSucceeded)

\* C14: no retries.  The owned-games lookup is issued exactly once for each
\* position of the id list, and the metadata and player-count lookups at most
\* once for each candidate, whether the call fails or not (sequential
\* version).
C14_EachLookupIssuedOnce ==
    (variant = "sequential" /\ pc # "start" /\ steamids # Missing) =>
        /\ DOMAIN issued.owned = DOMAIN ids
        /\ \A i \in DOMAIN ids :
              /\ issued.owned[i] <= 1
              /\ issued.owned[i] = 1 <=> owned[i].kind # "notissued"
        /\ pc \in {"enriching", "done"} =>
              \A i \in DOMAIN ids : issued.owned[i] = 1
        /\ \A k \in DOMAIN issued.details : issued.details[k] <= 1
        /\ \A k \in DOMAIN issued.players :
              /\ issued.players[k] <= 1
              /\ issued.players[k] = 1 <=> players[k].kind # "notissued"

\* C14 witness: the request is answered after a failed library fetch, a
\* failed metadata lookup and a failed player-count lookup, each issued once.
C14_FailedLookupsIssuedOnce ==
    /\ variant = "sequential"
    /\ Answered200
    /\ Len(ids) = 2
    /\ \E i \in DOMAIN owned :
          owned[i].kind = "rejected" /\ issued.owned[i] = 1
    /\ \E k \in DOMAIN details :
          details[k] = "rejected" /\ issued.details[k] = 1
    /\ \E k \in DOMAIN players :
          players[k].kind = "rejected" /\ issued.players[k] = 1

\* The threshold the caller asked for, in hundredths: the value of the
\* parameter, 0.8 when the request has none.
CallerThreshold ==
    CASE threshold = NoParam -> 80
      [] threshold = "0" -> 0
      [] threshold = "0.5" -> 50
      [] threshold = "1" -> 100

\* C15: the candidates are filtered with the caller's threshold for every
\* threshold in [0,1], 0.8 being used only when the parameter is absent: at
\* threshold 0 every game with an owner is a candidate, at threshold 1 only
\* the games owned by every fetched player (settled and sequential versions).
C15_FiltersWithCallersThreshold ==
    (variant \in {"sequential", "settled"} /\ Ranked) =>
        \A i \in DOMAIN gameOwnershipMap :
            (gameOwnershipMap[i].appid \in CandidateIds) <=>
                (Len(gameOwnershipMap[i].owners) * 100
                    >= CallerThreshold * Cardinality(FetchSucceeded))

\* C16: a call that never answers is treated like a failure of that player
\* or game, so a request is never left without a response and without
\* anything that can still happen for it: as long as the response is not
\* sent, an answer or a timer is still to come (sequential version).
C16_NeverAnsweringCallEndsLikeAFailure ==
    variant = "sequential" => (Done \/ ENABLED Next)

\* The ownership map the sequential loop builds from the fetch outcomes of
\* the state: the libraries folded one position after the other.
SequentialMap == FoldResults("sequential", << >>, ids, owned, 1, Len(ids))

\* The same game ids, playtimes and owners, the owners in any order.
SameMapUpToOwnerOrder(m1, m2) ==
    /\ {m1[i].appid : i \in DOMAIN m1} = {m2[j].appid : j \in DOMAIN m2}
    /\ \A i \in DOMAIN m1 : \A j \in DOMAIN m2 :
          m1[i].appid = m2[j].appid =>
              /\ m1[i].playtimes = m2[j].playtimes
              /\ \A p \in Range(ids) :
                    Occurrences(m1[i].owners, p) = Occurrences(m2[j].owners, p)

\* The fetch stage of the request is over.
FetchStageOver ==
    /\ steamids # Missing
    /\ AllAnswered(owned)
    /\ pc \in {"enriching", "done"}

\* C17: for the same id list and the same outcome of each player's fetch the
\* batch version and the sequential version end the fetch stage with the same
\* ownership map (game ids, owners up to their order, playtimes) and the same
\* count of successful fetches.
C17_BatchAndSequentialBuildTheSameMap ==
    (variant \in {"batch", "sequential"} /\ FetchStageOver) =>
        /\ SameMapUpToOwnerOrder(gameOwnershipMap, SequentialMap)
        /\ publicProfilesCount = Cardinality(FetchSucceeded)

\* An enrichment lookup has been issued.
EnrichmentBegun ==
    \/ \E k \in DOMAIN issued.details : issued.details[k] > 0
    \/ \E k \in DOMAIN issued.players : issued.players[k] > 0
    \/ \E k \in DOMAIN details : details[k] # "notissued"

\* C18: the stages run strictly in sequence.  No metadata or player-count
\* lookup is issued before every player's library fetch has succeeded or
\* failed and the candidates are ranked and truncated; for each candidate the
\* player-count lookup is issued only after its metadata lookup has answered
\* with the success flag (batch and sequential versions).
C18_StagesRunInSequence ==
    variant \in {"batch", "sequential"} =>
        /\ EnrichmentBegun =>
              /\ steamids # Missing
              /\ \A i \in DOMAIN ids :
                    owned[i].kind \in {"rejected", "noresponse", "nogames", "games"}
              /\ \A k, l \in DOMAIN matchedGames :
                    k < l => Len(matchedGames[k].owners) >= Len(matchedGames[l].owners)
              /\ targets = SubSeq(matchedGames, 1, Len(targets))
              /\ Len(targets) <= SliceCap
              /\ DOMAIN details = DOMAIN targets
        /\ \A k \in DOMAIN players :
              (players[k].kind # "notissued" \/ issued.players[k] > 0) =>
                  details[k] = "ok"

\* C18 witness: after a failed library fetch one candidate's player-count
\* lookup is outstanding while another candidate's metadata lookup is.
C18_PlayerCountLookupAfterMetadata ==
    /\ variant \in {"batch", "sequential"}
    /\ pc = "enriching"
    /\ FetchFailed # {}
    /\ \E k \in DOMAIN players : players[k].kind = "pending"
    /\ \E k \in DOMAIN details : details[k] = "pending"

\* The owned-games lookups that are outstanding, and whether a lookup has
\* been answered (with a library or a failure).
OutstandingLookups == {i \in DOMAIN owned : owned[i].kind = "pending"}
LookupAnswered(answer) ==
    answer.kind \in {"rejected", "noresponse", "nogames", "games"}

\* At most one lookup is outstanding and the lookups are issued in the order
\* of the id list, each after the previous one was answered.
OneLookupAtATime ==
    /\ Cardinality(OutstandingLookups) <= 1
    /\ \A i \in DOMAIN owned :
          owned[i].kind # "notissued" =>
              /\ issued.owned[i] = 1
              /\ \A j \in 1..(i - 1) : LookupAnswered(owned[j])

\* A step that issues a lookup after the first starts from the pacing delay,
\* and a step in which a lookup is answered, failures included, ends in it.
PacedStep ==
    /\ \A i \in DOMAIN owned :
          (i > 1 /\ owned[i].kind = "notissued" /\ owned'[i].kind # "notissued")
              => pc = "delay"
    /\ \A i \in DOMAIN owned :
          (owned[i].kind = "pending" /\ LookupAnswered(owned'[i]))
              => pc' = "delay"

\* C19: in the sequential version at most one owned-games lookup is
\* outstanding at any time; the lookups are issued in the order of the id
\* list, the next one only after the previous one has completed or failed and
\* the pacing delay has elapsed, and the delay follows a failed lookup too.
C19_SequentialLookupsArePaced ==
    /\ [](variant = "sequential" => OneLookupAtATime)
    /\ [][variant = "sequential" => PacedStep]_vars

\* C19 witness: the lookup of the second id is outstanding after the first
\* one failed.
C19_SecondLookupAfterFailedFirst ==
    /\ variant = "sequential"
    /\ pc = "fetching"
    /\ Len(owned) >= 2
    /\ owned[1].kind = "rejected"
    /\ owned[2].kind = "pending"

\* ---- the response as a function of the request and the upstream answers
\* Where library i lists game a.
ListedAt(i, a) == {j \in DOMAIN owned[i].games : owned[i].games[j].appid = a}
Max(S) == CHOOSE x \in S : \A y \in S : y <= x
Least(S) == CHOOSE x \in S : \A y \in S : x <= y

\* The games of the fetched libraries.
FetchedGames ==
    UNION {{owned[i].games[j].appid : j \in DOMAIN owned[i].games} :
              i \in FetchSucceeded}

\* The owners of game a: the ids of the positions i.. whose library lists it,
\* in the order of the id list, once for each time it is listed.
RECURSIVE OwnersFrom(_, _)
OwnersFrom(a, i) ==
    IF i > Len(ids) THEN << >>
    ELSE (IF i \in FetchSucceeded
          THEN [j \in 1..Cardinality(ListedAt(i, a)) |-> ids[i]]
          ELSE << >>) \o OwnersFrom(a, i + 1)

\* The playtime kept for player p and game a: that of the last listing.
LastPlaytime(a, p) ==
    LET i == Max({n \in FetchSucceeded : ids[n] = p /\ ListedAt(n, a) # {}})
    IN  owned[i].games[Max(ListedAt(i, a))].playtime_forever

\* Game a is listed before game b: in an earlier library of the id list, or
\* earlier in the same library.
FirstLibrary(a) == Least({n \in FetchSucceeded : ListedAt(n, a) # {}})
ListedBefore(a, b) ==
    \/ FirstLibrary(a) < FirstLibrary(b)
    \/ /\ FirstLibrary(a) = FirstLibrary(b)
       /\ Least(ListedAt(FirstLibrary(a), a)) < Least(ListedAt(FirstLibrary(b), b))

\* own[a] for the game ids 1..n: the owners of each game.
RECURSIVE OwnersUpTo(_)
OwnersUpTo(n) ==
    IF n = 0 THEN << >> ELSE Append(OwnersUpTo(n - 1), OwnersFrom(n, 1))

\* The games whose share of owners meets the threshold.
ExpectedCandidates(own) ==
    LET thr == OwnershipThreshold(variant, threshold)
    IN  {a \in FetchedGames :
            /\ ~thr.nan
            /\ Len(own[a]) * 100 >= thr.hundredths * Cardinality(FetchSucceeded)}

\* a is ranked before b: more owners; among equals the smaller game id
\* (settled version) or the game listed first (batch version).
RankedBefore(own, a, b) ==
    \/ Len(own[a]) > Len(own[b])
    \/ /\ Len(own[a]) = Len(own[b])
       /\ IF variant = "settled" THEN a < b ELSE ListedBefore(a, b)

\* The candidates from the first of the ranking to the last.
RECURSIVE ExpectedRanking(_, _)
ExpectedRanking(own, cands) ==
    IF cands = {} THEN << >>
    ELSE LET a == CHOOSE x \in cands :
                      \A y \in cands \ {x} : RankedBefore(own, x, y)
         IN  <<a>> \o ExpectedRanking(own, cands \ {a})

RECURSIVE ExpectedGames(_, _, _)
ExpectedGames(own, tgts, k) ==
    IF k > Len(tgts) THEN << >>
    ELSE (IF details[k] = "ok" /\ players[k].kind \in {"nofield", "count"}
          THEN LET a == tgts[k]
                   owners == Range(own[a])
               IN  <<[steam_appid |-> a,
                      player_count |-> IF players[k].kind = "count"
                                       THEN players[k].player_count ELSE 0,
                      owners |-> own[a],
                      nonOwners |-> SelectSeq(ids, LAMBDA p : p \notin owners),
                      playtimes |-> [p \in owners |-> LastPlaytime(a, p)]]>>
          ELSE << >>) \o ExpectedGames(own, tgts, k + 1)

ExpectedResponse ==
    IF variant = "batch" /\ \E i \in DOMAIN owned : owned[i].kind = "noresponse"
    THEN [status |-> 500, body |-> ErrorBody]
    ELSE LET own == OwnersUpTo(Max(FetchedGames \cup {0}))
             tgts == Slice(ExpectedRanking(own, ExpectedCandidates(own)), SliceCap)
             games == IF FetchSucceeded = {} THEN << >>
                      ELSE ExpectedGames(own, tgts, 1)
         IN  [status |-> 200,
              body |-> IF variant = "batch"
                       THEN [games |-> games,
                             publicProfilesScanned |-> Cardinality(FetchSucceeded),
                             totalProfilesRequested |-> Len(ids)]
                       ELSE [games |-> games]]

\* C20: the response is a function of the request and of the upstream
\* answers only: the id list, the threshold and the outcome of each call
\* determine the games, their order, the order of each owners list and the
\* counts, in whatever order the concurrent fetches and lookups completed
\* (batch and settled versions).
C20_ResponseDeterminedByRequestAndAnswers ==
    (variant \in {"batch", "settled"} /\ Done /\ steamids # Missing) =>
        responses = <<ExpectedResponse>>

\* C20 witness: two libraries were fetched and two games are returned, the
\* first owned by two different players.
C20_TwoGamesFromTwoLibraries ==
    /\ variant \in {"batch", "settled"}
    /\ Answered200
    /\ Cardinality(FetchSucceeded) = 2
    /\ Len(ReturnedGames) = 2
    /\ Cardinality(Range(ReturnedGames[1].owners)) = 2

\* The upstream calls of the request that are issued and not answered.
CallsOutstanding ==
    \/ \E i \in DOMAIN owned : owned[i].kind = "pending"
    \/ \E k \in DOMAIN details : details[k] = "pending"
    \/ \E k \in DOMAIN players : players[k].kind = "pending"

\* C21: a shared-games request sends exactly one response on every path (400,
\* the empty result, the normal result or 500), and once the response is sent
\* no upstream call of the request is still outstanding (sequential version
\* and index.js).
C21_OneResponseAndNothingLeftBehind ==
    variant \in {"sequential", "index"} =>
        /\ Len(responses) <= 1
        /\ Done <=> Len(responses) = 1
        /\ Done => /\ responses[1].status \in {200, 400, 500}
                   /\ ~CallsOutstanding

\* The playtimes of an entry (or of a returned game) of game a have the
\* owners as keys, each with a playtime that one of that player's fetched
\* libraries reports for a.
PlaytimesMatchOwners(a, owners, playtimes) ==
    /\ DOMAIN playtimes = Range(owners)
    /\ \A p \in DOMAIN playtimes :
          \E i \in FetchSucceeded :
              /\ ids[i] = p
              /\ \E j \in ListedAt(i, a) :
                    owned[i].games[j].playtime_forever = playtimes[p]

\* Every entry of the ownership map is kept by the step, its owners and its
\* playtimes only extended.
EntriesOnlyGrow ==
    \A i \in DOMAIN gameOwnershipMap :
        /\ i \in DOMAIN gameOwnershipMap'
        /\ gameOwnershipMap'[i].appid = gameOwnershipMap[i].appid
        /\ Len(gameOwnershipMap'[i].owners) >= Len(gameOwnershipMap[i].owners)
        /\ SubSeq(gameOwnershipMap'[i].owners, 1, Len(gameOwnershipMap[i].owners))
              = gameOwnershipMap[i].owners
        /\ DOMAIN gameOwnershipMap[i].playtimes
              \subseteq DOMAIN gameOwnershipMap'[i].playtimes

\* C22: in every state of an aggregation and in every returned game the keys
\* of an entry's playtimes are exactly its owners, each mapped to a playtime
\* reported in that owner's own library; entries are only added or extended
\* while folding and never removed from the map (sequential version).
C22_PlaytimesKeyedByOwners ==
    /\ [](variant = "sequential" =>
            /\ \A i \in DOMAIN gameOwnershipMap :
                  PlaytimesMatchOwners(gameOwnershipMap[i].appid,
                                       gameOwnershipMap[i].owners,
                                       gameOwnershipMap[i].playtimes)
            /\ Answered200 =>
                  \A g \in DOMAIN ReturnedGames :
                      PlaytimesMatchOwners(ReturnedGames[g].steam_appid,
                                           ReturnedGames[g].owners,
                                           ReturnedGames[g].playtimes))
    /\ [][variant = "sequential" => EntriesOnlyGrow]_vars

\* C22 witness: a returned game has two owners with different playtimes.
C22_TwoOwnersWithTheirPlaytimes ==
    /\ variant = "sequential"
    /\ Answered200
    /\ \E g \in DOMAIN ReturnedGames :
          LET game == ReturnedGames[g]
          IN  /\ Len(game.owners) = 2
              /\ game.owners[1] # game.owners[2]
              /\ game.playtimes[game.owners[1]] # game.playtimes[game.owners[2]]

====
